---- MODULE Spec2Model ----
(***************************************************************************)
(* Model of the incident-timeline extraction engine (src/extractors.py,    *)
(* src/patterns.py) and of the tool handler in front of it                 *)
(* (src/server.py).  A Python str is a sequence of one-character strings; *)
(* the regular expressions of patterns.py are operators that return the    *)
(* leftmost match the way re.search does.  Python indices are 0-based and  *)
(* are kept 0-based wherever the code computes with them.                  *)
(***************************************************************************)
EXTENDS Integers, Sequences, FiniteSets, TLC

VARIABLES name, text, result, tool, arguments, invoked

vars == <<name, text, result, tool, arguments, invoked>>

\* ------------------------------------------------------------------------
\* Bounds of the checked inputs
\* ------------------------------------------------------------------------
MaxFrags == 4
MaxLines == 3
\* the keyword and entity scans and the summary cost the most per input
MaxSeverityFrags == 3
MaxEntityFrags == 3
MaxSummaryLines == 2

\* ------------------------------------------------------------------------
\* Characters and str methods
\* ------------------------------------------------------------------------
DigitChars == {"0","1","2","3","4","5","6","7","8","9"}
LowerLetters == <<"a","b","c","d","e","f","g","h","i","j","k","l","m","n","o","p","q","r","s","t","u","v","w","x","y","z">>
UpperLetters == <<"A","B","C","D","E","F","G","H","I","J","K","L","M","N","O","P","Q","R","S","T","U","V","W","X","Y","Z">>

Range(s) == {s[i] : i \in 1..Len(s)}
SetMin(S) == CHOOSE m \in S : \A k \in S : m <= k
SetMax(S) == CHOOSE m \in S : \A k \in S : k <= m
Max0(a) == IF a > 0 THEN a ELSE 0

LowerChars == Range(LowerLetters)
UpperChars == Range(UpperLetters)
SpaceChars == {" ", "\n", "\t"}
NameChars == DigitChars \cup LowerChars \cup UpperChars \cup {"_", ".", "-"}

IsDigit(c) == c \in DigitChars
IsLower(c) == c \in LowerChars
IsUpper(c) == c \in UpperChars
IsWord(c) == IsDigit(c) \/ IsLower(c) \/ IsUpper(c) \/ c = "_"
IsSpace(c) == c \in SpaceChars

\* the character at 1-based position i, "" outside the string
At(s, i) == IF i \in 1..Len(s) THEN s[i] ELSE ""

LowerChar(c) == IF IsUpper(c) THEN LowerLetters[CHOOSE i \in 1..26 : UpperLetters[i] = c] ELSE c
lower(s) == [i \in 1..Len(s) |-> LowerChar(s[i])]

strip(s) ==
  LET keep == {i \in 1..Len(s) : ~IsSpace(s[i])}
  IN IF keep = {} THEN <<>> ELSE SubSeq(s, SetMin(keep), SetMax(keep))

RECURSIVE split(_)
split(s) ==
  LET nl == {i \in 1..Len(s) : s[i] = "\n"}
  IN IF nl = {} THEN <<s>>
     ELSE <<SubSeq(s, 1, SetMin(nl) - 1)>> \o split(SubSeq(s, SetMin(nl) + 1, Len(s)))

\* sub occurs in s at 0-based index k
OccursAt(sub, s, k) ==
  /\ k >= 0 /\ k + Len(sub) <= Len(s)
  /\ \A j \in 1..Len(sub) : s[k + j] = sub[j]

\* Python `sub in s`
Contains(sub, s) == \E k \in 0..(Len(s) - Len(sub)) : OccursAt(sub, s, k)

\* Python s.find(sub): 0-based index of the first occurrence, -1 when absent
find(s, sub) ==
  LET occ == {k \in 0..(Len(s) - Len(sub)) : OccursAt(sub, s, k)}
  IN IF occ = {} THEN -1 ELSE SetMin(occ)

\* Python s[a:b] for 0 <= a <= b
Slice(s, a, b) == SubSeq(s, a + 1, IF b > Len(s) THEN Len(s) ELSE b)

endswith(s, suffix) == Len(suffix) <= Len(s) /\ OccursAt(suffix, s, Len(s) - Len(suffix))

\* Python None; no match of a pattern is the empty string, so <<>> is free
None == <<>>

\* ------------------------------------------------------------------------
\* patterns.py: the registries
\* ------------------------------------------------------------------------
\* variant: the registry lists the least specific pattern first
TIMESTAMP_PATTERNS_simple_first == <<"simple_time", "time_with_seconds", "full_datetime">>
TIMESTAMP_PATTERNS == <<"full_datetime", "time_with_seconds", "simple_time">>
ACTOR_PATTERNS == <<"mention", "name_colon">>

ACTION_KEYWORDS == <<
  [category |-> "investigation", keywords |-> <<
     <<"i","n","v","e","s","t","i","g","a","t","i","n","g">>, <<"i","n","v","e","s","t","i","g","a","t","e","d">>, <<"c","h","e","c","k","i","n","g">>, <<"c","h","e","c","k","e","d">>,
     <<"e","x","a","m","i","n","i","n","g">>, <<"e","x","a","m","i","n","e","d">>, <<"a","n","a","l","y","z","i","n","g">>, <<"a","n","a","l","y","z","e","d">>,
     <<"r","e","v","i","e","w","i","n","g">>, <<"r","e","v","i","e","w","e","d">>, <<"d","e","b","u","g","g","i","n","g">>, <<"d","e","b","u","g","g","e","d">>,
     <<"t","r","a","c","i","n","g">>, <<"t","r","a","c","e","d">>, <<"m","o","n","i","t","o","r","i","n","g">>, <<"m","o","n","i","t","o","r","e","d">>, <<"w","a","t","c","h","i","n","g">> >>],
  [category |-> "remediation", keywords |-> <<
     <<"d","e","p","l","o","y","i","n","g">>, <<"d","e","p","l","o","y","e","d">>, <<"r","o","l","l","i","n","g"," ","b","a","c","k">>, <<"r","o","l","l","e","d"," ","b","a","c","k">>,
     <<"r","e","v","e","r","t","i","n","g">>, <<"r","e","v","e","r","t","e","d">>, <<"r","e","s","t","a","r","t","i","n","g">>, <<"r","e","s","t","a","r","t","e","d">>,
     <<"r","e","b","o","o","t","i","n","g">>, <<"r","e","b","o","o","t","e","d">>, <<"f","i","x","i","n","g">>, <<"f","i","x","e","d">>,
     <<"p","a","t","c","h","i","n","g">>, <<"p","a","t","c","h","e","d">>, <<"u","p","d","a","t","i","n","g">>, <<"u","p","d","a","t","e","d">>,
     <<"s","c","a","l","i","n","g">>, <<"s","c","a","l","e","d">>, <<"k","i","l","l","i","n","g">>, <<"k","i","l","l","e","d">>,
     <<"s","t","o","p","p","i","n","g">>, <<"s","t","o","p","p","e","d">> >>],
  [category |-> "communication", keywords |-> <<
     <<"n","o","t","i","f","y","i","n","g">>, <<"n","o","t","i","f","i","e","d">>, <<"a","l","e","r","t","i","n","g">>, <<"a","l","e","r","t","e","d">>,
     <<"p","a","g","i","n","g">>, <<"p","a","g","e","d">>, <<"e","s","c","a","l","a","t","i","n","g">>, <<"e","s","c","a","l","a","t","e","d">>,
     <<"c","o","n","f","i","r","m","i","n","g">>, <<"c","o","n","f","i","r","m","e","d">>, <<"a","c","k","n","o","w","l","e","d","g","i","n","g">>, <<"a","c","k","n","o","w","l","e","d","g","e","d">>,
     <<"r","e","p","o","r","t","i","n","g">>, <<"r","e","p","o","r","t","e","d">> >>],
  [category |-> "status", keywords |-> <<
     <<"r","e","s","o","l","v","i","n","g">>, <<"r","e","s","o","l","v","e","d">>, <<"m","i","t","i","g","a","t","i","n","g">>, <<"m","i","t","i","g","a","t","e","d">>,
     <<"c","o","m","p","l","e","t","i","n","g">>, <<"c","o","m","p","l","e","t","e","d">>, <<"s","t","a","r","t","i","n","g">>, <<"s","t","a","r","t","e","d">>,
     <<"i","n","i","t","i","a","t","i","n","g">>, <<"i","n","i","t","i","a","t","e","d">> >>] >>

\* ------------------------------------------------------------------------
\* patterns.py: the regular expressions.  A match is [start, text, group]
\* with start the 0-based index where the pattern matched; NoMatch when
\* re.search returns None.
\* ------------------------------------------------------------------------
NoMatch == [start |-> -1, text |-> <<>>, group |-> <<>>]

\* length of the maximal run of characters of a class from 1-based i
RunLen(s, i, class) ==
  IF i < 1 \/ i > Len(s) THEN 0
  ELSE LET stop == {k \in i..(Len(s) + 1) : At(s, k) \notin class}
       IN SetMin(stop) - i

\* ([0-2]?\d) at 1-based i followed by ':' : the hour's length, greedy
\* alternative first; 0 when neither alternative is followed by ':'
HourLen(s, i) ==
  IF At(s, i) \in {"0","1","2"} /\ IsDigit(At(s, i + 1)) /\ At(s, i + 2) = ":" THEN 2
  ELSE IF IsDigit(At(s, i)) /\ At(s, i + 1) = ":" THEN 1
  ELSE 0

\* ([0-5]\d) at 1-based i
IsSixty(s, i) == At(s, i) \in {"0","1","2","3","4","5"} /\ IsDigit(At(s, i + 1))

\* (?<![:\w]) before 1-based i
NotAfterWordOrColon(s, i) == ~(IsWord(At(s, i - 1)) \/ At(s, i - 1) = ":")

\* (?!:\d)\b after a digit, the next character at 1-based i
TimeEnds(s, i) == ~(At(s, i) = ":" /\ IsDigit(At(s, i + 1))) /\ ~IsWord(At(s, i))

\* variant: the pattern without its lookbehind
SimpleTimeLenNoLookbehind(s, i) ==
  LET h == HourLen(s, i)
  IN IF /\ h > 0
        /\ IsSixty(s, i + h + 1)
        /\ TimeEnds(s, i + h + 3)
     THEN h + 3 ELSE 0

\* r'(?<![:\w])([0-2]?\d):([0-5]\d)(?!:\d)\b' : match length at 1-based i
SimpleTimeLen(s, i) ==
  LET h == HourLen(s, i)
  IN IF /\ NotAfterWordOrColon(s, i) /\ h > 0
        /\ IsSixty(s, i + h + 1)
        /\ TimeEnds(s, i + h + 3)
     THEN h + 3 ELSE 0

\* r'(?<![:\w])([0-2]?\d):([0-5]\d):([0-5]\d)(?!:\d)\b'
TimeWithSecondsLen(s, i) ==
  LET h == HourLen(s, i)
  IN IF /\ NotAfterWordOrColon(s, i) /\ h > 0
        /\ IsSixty(s, i + h + 1)
        /\ At(s, i + h + 3) = ":"
        /\ IsSixty(s, i + h + 4)
        /\ TimeEnds(s, i + h + 6)
     THEN h + 6 ELSE 0

\* r'\b(\d{4}-\d{2}-\d{2})\s+(\d{2}:\d{2}(?::\d{2})?)\b'
FullDatetimeLen(s, i) ==
  LET AllDigits(a, b) == \A k \in a..b : IsDigit(At(s, k))
      w == RunLen(s, i + 10, SpaceChars)
      t == i + 10 + w
      hhmm == AllDigits(t, t + 1) /\ At(s, t + 2) = ":" /\ AllDigits(t + 3, t + 4)
      secs == At(s, t + 5) = ":" /\ AllDigits(t + 6, t + 7) /\ ~IsWord(At(s, t + 8))
  IN IF /\ ~IsWord(At(s, i - 1))
        /\ AllDigits(i, i + 3) /\ At(s, i + 4) = "-"
        /\ AllDigits(i + 5, i + 6) /\ At(s, i + 7) = "-"
        /\ AllDigits(i + 8, i + 9)
        /\ w >= 1 /\ hhmm
     THEN IF secs THEN 10 + w + 8
          ELSE IF ~IsWord(At(s, t + 5)) THEN 10 + w + 5
          ELSE 0
     ELSE 0

TimestampLen(p, s, i) ==
  CASE p = "full_datetime" -> FullDatetimeLen(s, i)
    [] p = "time_with_seconds" -> TimeWithSecondsLen(s, i)
    [] p = "simple_time" -> SimpleTimeLen(s, i)

\* re.search(TIMESTAMP_PATTERNS[p], s): the leftmost match
SearchTimestamp(p, s) ==
  LET at == {i \in 1..Len(s) : TimestampLen(p, s, i) > 0}
  IN IF at = {} THEN NoMatch
     ELSE LET i == SetMin(at)
              m == SubSeq(s, i, i + TimestampLen(p, s, i) - 1)
          IN [start |-> i - 1, text |-> m, group |-> m]

IsNameChar(c) == c \in NameChars

\* r'@([\w.-]+)'
MentionLen(s, i) ==
  IF At(s, i) = "@" /\ IsNameChar(At(s, i + 1)) THEN 1 + RunLen(s, i + 1, NameChars) ELSE 0

\* r'\b([A-Z][a-z]+(?:\s+[A-Z][a-z]+)?):' : match length (colon included)
NameColonLen(s, i) ==
  LET n1 == RunLen(s, i + 1, LowerChars)
      e1 == i + 1 + n1
      w == RunLen(s, e1, SpaceChars)
      c2 == e1 + w
      n2 == RunLen(s, c2 + 1, LowerChars)
      e2 == c2 + 1 + n2
  IN IF ~IsWord(At(s, i - 1)) /\ IsUpper(At(s, i)) /\ n1 >= 1
     THEN IF w >= 1 /\ IsUpper(At(s, c2)) /\ n2 >= 1 /\ At(s, e2) = ":" THEN e2 - i + 1
          ELSE IF At(s, e1) = ":" THEN e1 - i + 1
          ELSE 0
     ELSE 0

ActorLen(p, s, i) ==
  CASE p = "mention" -> MentionLen(s, i)
    [] p = "name_colon" -> NameColonLen(s, i)

\* re.search(ACTOR_PATTERNS[p], s); group is match.group(1)
SearchActor(p, s) ==
  LET at == {i \in 1..Len(s) : ActorLen(p, s, i) > 0}
  IN IF at = {} THEN NoMatch
     ELSE LET i == SetMin(at)
              n == ActorLen(p, s, i)
          IN [start |-> i - 1, text |-> SubSeq(s, i, i + n - 1),
              group |-> IF p = "mention" THEN SubSeq(s, i + 1, i + n - 1)
                        ELSE SubSeq(s, i, i + n - 2)]

\* ------------------------------------------------------------------------
\* extractors.py: timestamps
\* ------------------------------------------------------------------------
false_positive_words == << <<"r","a","t","i","o">>, <<"v","e","r","s","i","o","n">>, <<"s","c","a","l","e","d">> >>
ContextWindow == 20

\* any(word in context for word in false_positive_words)
HasFalsePositiveWord(context) ==
  \E k \in 1..Len(false_positive_words) : Contains(false_positive_words[k], context)

_is_likely_timestamp(line, timestamp) ==
  LET text_lower == lower(line)
      timestamp_index == find(line, timestamp)
      context_before == Slice(text_lower, Max0(timestamp_index - ContextWindow), timestamp_index)
  IN IF timestamp_index > 0 /\ HasFalsePositiveWord(context_before) THEN FALSE ELSE TRUE

\* variant: a rejected match ends the search
RECURSIVE FindTimestampNoFallback(_, _)
FindTimestampNoFallback(line, p) ==
  IF p > Len(TIMESTAMP_PATTERNS) THEN None
  ELSE LET match == SearchTimestamp(TIMESTAMP_PATTERNS[p], line)
       IN IF match = NoMatch THEN FindTimestampNoFallback(line, p + 1)
          ELSE IF _is_likely_timestamp(line, match.text) THEN match.text
          ELSE None

\* body of the loop over the patterns: the match of pattern p is returned
\* when there is one and it is likely, else the next pattern is tried
RECURSIVE FindTimestampFrom(_, _)
TimestampOrNext(line, p, match) ==
  IF match # NoMatch /\ _is_likely_timestamp(line, match.text)
  THEN match.text
  ELSE FindTimestampFrom(line, p + 1)

FindTimestampFrom(line, p) ==
  IF p > Len(TIMESTAMP_PATTERNS) THEN None
  ELSE TimestampOrNext(line, p, SearchTimestamp(TIMESTAMP_PATTERNS[p], line))

_find_timestamp(line) == FindTimestampFrom(line, 1)

\* ------------------------------------------------------------------------
\* extractors.py: actors
\* ------------------------------------------------------------------------
common_labels == { <<"t","i","m","e">>, <<"e","r","r","o","r">>, <<"s","t","a","t","u","s">>, <<"n","o","t","e">>, <<"w","a","r","n","i","n","g">>,
                   <<"i","n","f","o">>, <<"d","e","b","u","g">>, <<"s","y","s","t","e","m">> }
common_tlds == { <<".","c","o","m">>, <<".","o","r","g">>, <<".","n","e","t">>, <<".","i","o">>, <<".","c","o">>, <<".","e","d","u">>, <<".","g","o","v">> }

\* variant: the label test without case folding
_is_likely_actor_cased(actor) ==
  IF actor \in common_labels THEN FALSE
  ELSE IF \E tld \in common_tlds : endswith(lower(actor), tld) THEN FALSE
  ELSE TRUE

_is_likely_actor(actor) ==
  IF lower(actor) \in common_labels THEN FALSE
  ELSE IF \E tld \in common_tlds : endswith(lower(actor), tld) THEN FALSE
  ELSE TRUE

\* variant: a rejected capture ends the search
RECURSIVE FindActorNoFallback(_, _)
FindActorNoFallback(line, p) ==
  IF p > Len(ACTOR_PATTERNS) THEN None
  ELSE LET match == SearchActor(ACTOR_PATTERNS[p], line)
       IN IF match = NoMatch THEN FindActorNoFallback(line, p + 1)
          ELSE IF _is_likely_actor(match.group) THEN match.group
          ELSE None

\* body of the loop over the patterns: the capture of pattern p is returned
\* when there is one and it is likely, else the next pattern is tried
RECURSIVE FindActorFrom(_, _)
ActorOrNext(line, p, match) ==
  IF match # NoMatch /\ _is_likely_actor(match.group)
  THEN match.group
  ELSE FindActorFrom(line, p + 1)

FindActorFrom(line, p) ==
  IF p > Len(ACTOR_PATTERNS) THEN None
  ELSE ActorOrNext(line, p, SearchActor(ACTOR_PATTERNS[p], line))

_find_actor(line) == FindActorFrom(line, 1)

\* ------------------------------------------------------------------------
\* extractors.py: extract_timeline
\* ------------------------------------------------------------------------
\* lines = text.strip().split('\n')
Lines(t) == split(strip(t))

\* variant: the newest event is put in front
TimelineLineNewestFirst(events, raw) ==
  LET line == strip(raw)
      timestamp == _find_timestamp(line)
      actor == _find_actor(line)
  IN IF line = <<>> THEN events
     ELSE IF timestamp = None THEN events
     ELSE IF actor # None
          THEN <<[time |-> timestamp, text |-> strip(line), actor |-> actor]>> \o events
          ELSE <<[time |-> timestamp, text |-> strip(line)]>> \o events

\* variant: a line is skipped only when it has neither timestamp nor actor
TimelineLineOrActor(events, raw) ==
  LET line == strip(raw)
      timestamp == _find_timestamp(line)
      actor == _find_actor(line)
  IN IF line = <<>> THEN events
     ELSE IF timestamp = None /\ actor = None THEN events
     ELSE IF actor # None
          THEN Append(events, [time |-> timestamp, text |-> strip(line), actor |-> actor])
          ELSE Append(events, [time |-> timestamp, text |-> strip(line)])

\* the events after a non-empty line whose timestamp and actor were looked up
TimelineEvent(events, line, timestamp, actor) ==
  IF timestamp = None THEN events
  ELSE IF actor # None
       THEN Append(events, [time |-> timestamp, text |-> strip(line), actor |-> actor])
       ELSE Append(events, [time |-> timestamp, text |-> strip(line)])

\* body of the loop over lines: the events after one more line
TimelineLine(events, raw) ==
  IF strip(raw) = <<>> THEN events
  ELSE TimelineEvent(events, strip(raw), _find_timestamp(strip(raw)), _find_actor(strip(raw)))

RECURSIVE TimelineLoop(_, _, _)
TimelineLoop(events, lines, i) ==
  IF i > Len(lines) THEN events
  ELSE TimelineLoop(TimelineLine(events, lines[i]), lines, i + 1)

extract_timeline(t) == TimelineLoop(<<>>, Lines(t), 1)

\* ------------------------------------------------------------------------
\* extractors.py: identify_actions
\* ------------------------------------------------------------------------
\* variant: the last keyword of the list that occurs
LastKeyword(keywords, line_lower) ==
  LET hits == {k \in 1..Len(keywords) : Contains(keywords[k], line_lower)}
  IN IF hits = {} THEN 0 ELSE SetMax(hits)

\* for keyword in keywords: if keyword in line_lower: ... break
\* the index of the keyword recorded, 0 when the inner loop ends unbroken
FirstKeyword(keywords, line_lower) ==
  LET hits == {k \in 1..Len(keywords) : Contains(keywords[k], line_lower)}
  IN IF hits = {} THEN 0 ELSE SetMin(hits)

\* variant: every category is scanned, no break after a recorded action
RECURSIVE ScanAllCategories(_, _, _)
ScanAllCategories(actions, line, c) ==
  IF c > Len(ACTION_KEYWORDS) THEN actions
  ELSE LET keywords == ACTION_KEYWORDS[c].keywords
           k == FirstKeyword(keywords, lower(line))
           appended == IF k = 0 THEN actions
                       ELSE Append(actions, [action |-> keywords[k],
                                             category |-> ACTION_KEYWORDS[c].category,
                                             context |-> line])
       IN ScanAllCategories(appended, line, c + 1)

\* the loop over ACTION_KEYWORDS.items() from category c on, for one line
RECURSIVE ScanCategories(_, _, _)
ScanCategories(actions, line, c) ==
  IF c > Len(ACTION_KEYWORDS) THEN actions
  ELSE LET keywords == ACTION_KEYWORDS[c].keywords
           k == FirstKeyword(keywords, lower(line))
           appended == IF k = 0 THEN actions
                       ELSE Append(actions, [action |-> keywords[k],
                                             category |-> ACTION_KEYWORDS[c].category,
                                             context |-> line])
       IN IF appended # <<>> /\ appended[Len(appended)].context = line
          THEN appended
          ELSE ScanCategories(appended, line, c + 1)

\* body of the loop over lines
ActionsLine(actions, raw) ==
  LET line == strip(raw)
  IN IF line = <<>> THEN actions ELSE ScanCategories(actions, line, 1)

RECURSIVE ActionsLoop(_, _, _)
ActionsLoop(actions, lines, i) ==
  IF i > Len(lines) THEN actions
  ELSE ActionsLoop(ActionsLine(actions, lines[i]), lines, i + 1)

identify_actions(t) == ActionsLoop(<<>>, Lines(t), 1)

\* ------------------------------------------------------------------------
\* patterns.py: ENTITY_PATTERNS, and re.finditer over them
\* ------------------------------------------------------------------------
ENTITY_PATTERNS == <<"service", "ip", "domain">>

\* \b at 1-based i: exactly one of the neighbours is a word character
WordBoundary(s, i) == IsWord(At(s, i - 1)) # IsWord(At(s, i))

ServiceChars == LowerChars \cup DigitChars \cup {"_", "-"}
ServiceSuffixes == << <<"s","e","r","v","i","c","e">>, <<"a","p","i">>, <<"w","o","r","k","e","r">>, <<"j","o","b">>, <<"d","a","e","m","o","n">> >>
DomainChars == LowerChars \cup DigitChars \cup {"-"}

\* r'\b([a-z][a-z0-9_-]*(?:service|api|worker|job|daemon))\b' : the greedy
\* star keeps the longest body after which a suffix and a boundary follow
ServiceLen(s, i) ==
  LET run == RunLen(s, i + 1, ServiceChars)
      ends == {n + Len(ServiceSuffixes[k]) :
                 n \in 0..run, k \in 1..Len(ServiceSuffixes)}
      good == {e \in ends :
                 /\ e <= run
                 /\ \E k \in 1..Len(ServiceSuffixes) :
                      /\ Len(ServiceSuffixes[k]) <= e
                      /\ OccursAt(ServiceSuffixes[k], s, i + e - Len(ServiceSuffixes[k]))
                 /\ ~IsWord(At(s, i + e + 1))}
  IN IF WordBoundary(s, i) /\ IsLower(At(s, i)) /\ good # {}
     THEN 1 + SetMax(good) ELSE 0

\* r'\b(\d{1,3}\.\d{1,3}\.\d{1,3}\.\d{1,3})\b'
IpLen(s, i) ==
  LET g1 == RunLen(s, i, DigitChars)
      i2 == i + g1 + 1
      g2 == RunLen(s, i2, DigitChars)
      i3 == i2 + g2 + 1
      g3 == RunLen(s, i3, DigitChars)
      i4 == i3 + g3 + 1
      g4 == RunLen(s, i4, DigitChars)
  IN IF /\ WordBoundary(s, i)
        /\ g1 \in 1..3 /\ At(s, i + g1) = "."
        /\ g2 \in 1..3 /\ At(s, i2 + g2) = "."
        /\ g3 \in 1..3 /\ At(s, i3 + g3) = "."
        /\ g4 \in 1..3 /\ ~IsWord(At(s, i4 + g4))
     THEN i4 + g4 - i ELSE 0

\* r'\b([a-z0-9-]+(?:\.[a-z0-9-]+)*\.[a-z]{2,})\b' : whole labels joined by
\* single dots, then a dot and two or more letters ending at a boundary;
\* the greedy star keeps the last place where such an ending is found
DomainLen(s, i) ==
  LET run == RunLen(s, i, DomainChars \cup {"."})
      tlds == {t \in (i + 2)..(i + run - 1) :
                 /\ At(s, t - 1) = "."
                 /\ \A k \in i..(t - 2) : At(s, k) = "." => At(s, k + 1) # "."
                 /\ RunLen(s, t, LowerChars) >= 2
                 /\ ~IsWord(At(s, t + RunLen(s, t, LowerChars)))}
  IN IF WordBoundary(s, i) /\ At(s, i) \in DomainChars /\ tlds # {}
     THEN SetMax(tlds) + RunLen(s, SetMax(tlds), LowerChars) - i ELSE 0

EntityLen(p, s, i) ==
  CASE p = "service" -> ServiceLen(s, i)
    [] p = "ip" -> IpLen(s, i)
    [] p = "domain" -> DomainLen(s, i)

\* re.finditer(ENTITY_PATTERNS[p], s) from 1-based i on: the matches from
\* left to right, each search resuming where the previous match ended
RECURSIVE FindIterFrom(_, _, _)
FindIterAt(p, s, at) ==
  IF at = {} THEN <<>>
  ELSE LET k == SetMin(at)
           n == EntityLen(p, s, k)
       IN <<[start |-> k - 1, text |-> SubSeq(s, k, k + n - 1),
             group |-> SubSeq(s, k, k + n - 1)]>> \o FindIterFrom(p, s, k + n)

FindIterFrom(p, s, i) == FindIterAt(p, s, {k \in i..Len(s) : EntityLen(p, s, k) > 0})

finditer(p, s) == FindIterFrom(p, s, 1)

\* ------------------------------------------------------------------------
\* extractors.py: extract_entities
\* ------------------------------------------------------------------------
\* Python s.split(sep) for a one-character separator
RECURSIVE split_on(_, _)
split_on(s, sep) ==
  LET at == {i \in 1..Len(s) : s[i] = sep}
  IN IF at = {} THEN <<s>>
     ELSE <<SubSeq(s, 1, SetMin(at) - 1)>> \o split_on(SubSeq(s, SetMin(at) + 1, Len(s)), sep)

DigitSeq == <<"0","1","2","3","4","5","6","7","8","9">>
DigitValue(c) == (CHOOSE k \in 1..10 : DigitSeq[k] = c) - 1

\* int(octet) succeeds; the octets reaching it are runs of decimal digits
IsInt(octet) == octet # <<>> /\ \A k \in 1..Len(octet) : IsDigit(octet[k])

\* int(octet)
RECURSIVE int(_)
int(octet) ==
  IF Len(octet) = 0 THEN 0
  ELSE 10 * int(SubSeq(octet, 1, Len(octet) - 1)) + DigitValue(octet[Len(octet)])

\* variant: only the first octet is range-checked
_is_valid_ip_first_octet(ip) ==
  LET octets == split_on(ip, ".")
  IN IF \E k \in 1..Len(octets) : ~IsInt(octets[k]) THEN FALSE
     ELSE 0 <= int(octets[1]) /\ int(octets[1]) <= 255

_is_valid_ip(ip) ==
  LET octets == split_on(ip, ".")
  IN IF \E k \in 1..Len(octets) : ~IsInt(octets[k]) THEN FALSE
     ELSE \A k \in 1..Len(octets) : 0 <= int(octets[k]) /\ int(octets[k]) <= 255

MinDomainLen == 5
false_positives == { <<"e","x","a","m","p","l","e",".","c","o","m">>, <<"t","e","s","t",".","c","o","m">>, <<"l","o","c","a","l","h","o","s","t",".","l","o","c","a","l">> }

\* variant: a placeholder is recognised by its ending
_is_likely_domain_no_placeholders(domain) ==
  IF Len(domain) < MinDomainLen THEN FALSE
  ELSE TRUE

_is_likely_domain(domain) ==
  IF Len(domain) < MinDomainLen THEN FALSE
  ELSE IF domain \in false_positives THEN FALSE
  ELSE TRUE

InList(x, list) == \E k \in 1..Len(list) : list[k] = x

\* variant: every match is appended, seen before or not
RECURSIVE CollectAll(_, _, _, _)
CollectAll(list, matches, k, kind) ==
  IF k > Len(matches) THEN list
  ELSE LET value == matches[k].group
           ok == CASE kind = "services" -> TRUE
                   [] kind = "ips" -> _is_valid_ip(value)
                   [] kind = "domains" -> _is_likely_domain(value)
       IN CollectAll(IF ok THEN Append(list, value) ELSE list, matches, k + 1, kind)

\* variant: a value seen again moves to the end of the list
RECURSIVE CollectLastSeen(_, _, _, _)
CollectLastSeen(list, matches, k, kind) ==
  IF k > Len(matches) THEN list
  ELSE LET value == matches[k].group
           Other(x) == x # value
           ok == CASE kind = "services" -> TRUE
                   [] kind = "ips" -> _is_valid_ip(value)
                   [] kind = "domains" -> _is_likely_domain(value)
       IN CollectLastSeen(IF ok THEN Append(SelectSeq(list, Other), value)
                          ELSE list, matches, k + 1, kind)

\* the three loops `for match in re.finditer(...)`: the list after the
\* matches from the k-th on, each appended when valid and not yet listed
RECURSIVE Collect(_, _, _, _)
Collect(list, matches, k, kind) ==
  IF k > Len(matches) THEN list
  ELSE LET value == matches[k].group
           ok == CASE kind = "services" -> TRUE
                   [] kind = "ips" -> _is_valid_ip(value)
                   [] kind = "domains" -> _is_likely_domain(value)
       IN Collect(IF ok /\ ~InList(value, list) THEN Append(list, value) ELSE list,
                  matches, k + 1, kind)

extract_entities(t) ==
  LET text_lower == lower(t)
  IN [services |-> Collect(<<>>, finditer("service", text_lower), 1, "services"),
      ips |-> Collect(<<>>, finditer("ip", t), 1, "ips"),
      domains |-> Collect(<<>>, finditer("domain", text_lower), 1, "domains")]

\* ------------------------------------------------------------------------
\* patterns.py: SEVERITY_KEYWORDS; extractors.py: detect_severity
\* ------------------------------------------------------------------------
SEVERITY_KEYWORDS == <<
  [level |-> "critical", keywords |-> <<
     <<"c","r","i","t","i","c","a","l">>, <<"d","o","w","n">>, <<"o","u","t","a","g","e">>, <<"o","f","f","l","i","n","e">>, <<"u","n","a","v","a","i","l","a","b","l","e">>,
     <<"t","o","t","a","l"," ","f","a","i","l","u","r","e">>, <<"c","o","m","p","l","e","t","e"," ","l","o","s","s">>, <<"s","e","r","v","i","c","e"," ","d","o","w","n">> >>],
  [level |-> "high", keywords |-> <<
     <<"d","e","g","r","a","d","e","d">>, <<"s","l","o","w">>, <<"t","i","m","e","o","u","t">>, <<"e","l","e","v","a","t","e","d"," ","e","r","r","o","r">>,
     <<"h","i","g","h"," ","e","r","r","o","r">>, <<"e","r","r","o","r"," ","r","a","t","e">>, <<"p","e","r","f","o","r","m","a","n","c","e"," ","i","s","s","u","e">>,
     <<"j","u","m","p","e","d">>, <<"s","p","i","k","e">>, <<"s","u","r","g","e","d">> >>],
  [level |-> "medium", keywords |-> <<
     <<"i","n","t","e","r","m","i","t","t","e","n","t">>, <<"o","c","c","a","s","i","o","n","a","l">>, <<"s","p","o","r","a","d","i","c">>, <<"s","o","m","e"," ","u","s","e","r","s">>,
     <<"a","f","f","e","c","t","i","n","g"," ","s","o","m","e">> >>],
  [level |-> "low", keywords |-> << <<"m","i","n","o","r">>, <<"c","o","s","m","e","t","i","c">>, <<"e","d","g","e"," ","c","a","s","e">>, <<"r","a","r","e">> >>] >>

\* variant: the scan of a level stops at its first keyword found
SeverityScoreFirstOnly(l, text_lower) ==
  LET keywords == SEVERITY_KEYWORDS[l].keywords
      hits == {k \in 1..Len(keywords) : Contains(keywords[k], text_lower)}
  IN IF hits = {} THEN <<>> ELSE <<keywords[SetMin(hits)]>>

\* variant: the keywords of a level are scanned from the end of its list
SeverityScoreLastFirst(l, text_lower) ==
  LET keywords == SEVERITY_KEYWORDS[l].keywords
      Present(keyword) == Contains(keyword, text_lower)
      found == SelectSeq(keywords, Present)
  IN [j \in 1..Len(found) |-> found[Len(found) + 1 - j]]

\* severity_scores[level] after the collecting loop: the keywords of the
\* level that occur in the folded text, in list order
SeverityScore(l, text_lower) ==
  LET keywords == SEVERITY_KEYWORDS[l].keywords
      Present(keyword) == Contains(keyword, text_lower)
  IN SelectSeq(keywords, Present)

\* variant: the if/elif chain asks the levels from low up to critical
ChooseLevelLowestFirst(scores) ==
  IF scores[4] # <<>> THEN [level |-> "low", indicators |-> scores[4]]
  ELSE IF scores[3] # <<>> THEN [level |-> "medium", indicators |-> scores[3]]
  ELSE IF scores[2] # <<>> THEN [level |-> "high", indicators |-> scores[2]]
  ELSE IF scores[1] # <<>> THEN [level |-> "critical", indicators |-> scores[1]]
  ELSE [level |-> "unknown", indicators |-> <<>>]

\* the if/elif chain over severity_scores
ChooseLevel(scores) ==
  IF scores[1] # <<>> THEN [level |-> "critical", indicators |-> scores[1]]
  ELSE IF scores[2] # <<>> THEN [level |-> "high", indicators |-> scores[2]]
  ELSE IF scores[3] # <<>> THEN [level |-> "medium", indicators |-> scores[3]]
  ELSE IF scores[4] # <<>> THEN [level |-> "low", indicators |-> scores[4]]
  ELSE [level |-> "unknown", indicators |-> <<>>]

HighConfidenceCount == 3
MediumConfidenceCount == 1

\* variant: two indicators are enough for high confidence
ConfidenceFromTwo(indicators) ==
  IF Len(indicators) >= 2 THEN "high"
  ELSE IF Len(indicators) >= MediumConfidenceCount THEN "medium"
  ELSE "low"

Confidence(indicators) ==
  IF Len(indicators) >= HighConfidenceCount THEN "high"
  ELSE IF Len(indicators) >= MediumConfidenceCount THEN "medium"
  ELSE "low"

detect_severity(t) ==
  LET text_lower == lower(t)
      severity_scores == [l \in 1..Len(SEVERITY_KEYWORDS) |-> SeverityScore(l, text_lower)]
      chosen == ChooseLevel(severity_scores)
  IN [level |-> chosen.level,
      confidence |-> Confidence(chosen.indicators),
      indicators |-> chosen.indicators]

\* ------------------------------------------------------------------------
\* extractors.py: generate_summary
\* ------------------------------------------------------------------------
\* the characters of the category, level and confidence names
Chars(word) ==
  CASE word = "investigation" -> <<"i","n","v","e","s","t","i","g","a","t","i","o","n">>
    [] word = "remediation" -> <<"r","e","m","e","d","i","a","t","i","o","n">>
    [] word = "communication" -> <<"c","o","m","m","u","n","i","c","a","t","i","o","n">>
    [] word = "status" -> <<"s","t","a","t","u","s">>
    [] word = "critical" -> <<"c","r","i","t","i","c","a","l">>
    [] word = "high" -> <<"h","i","g","h">>
    [] word = "medium" -> <<"m","e","d","i","u","m">>
    [] word = "low" -> <<"l","o","w">>
    [] word = "unknown" -> <<"u","n","k","n","o","w","n">>
    [] word = "services" -> <<"s","e","r","v","i","c","e","s">>
    [] word = "ips" -> <<"i","p","s">>
    [] word = "domains" -> <<"d","o","m","a","i","n","s">>

UpperChar(c) == IF IsLower(c) THEN UpperLetters[CHOOSE i \in 1..26 : LowerLetters[i] = c] ELSE c
upper(s) == [i \in 1..Len(s) |-> UpperChar(s[i])]

\* str(n) for n >= 0, as an f-string renders a count
RECURSIVE str(_)
str(n) == IF n < 10 THEN <<DigitSeq[n + 1]>> ELSE str(n \div 10) \o <<DigitSeq[(n % 10) + 1]>>

\* "\n".join(parts)
RECURSIVE join(_)
join(parts) ==
  IF parts = <<>> THEN <<>>
  ELSE IF Len(parts) = 1 THEN parts[1]
  ELSE parts[1] \o <<"\n">> \o join(Tail(parts))

\* variant: the categories are listed in registry order
CategoryKeysRegistryOrder(keys, actions, k) ==
  LET Used(c) == \E j \in 1..Len(actions) : actions[j].category = c
  IN SelectSeq([i \in 1..Len(ACTION_KEYWORDS) |-> ACTION_KEYWORDS[i].category], Used)

\* the keys of action_categories in insertion order
RECURSIVE CategoryKeys(_, _, _)
CategoryKeys(keys, actions, k) ==
  IF k > Len(actions) THEN keys
  ELSE CategoryKeys(IF InList(actions[k].category, keys) THEN keys
                    ELSE Append(keys, actions[k].category), actions, k + 1)

\* action_categories[category]
CategoryCount(actions, category) ==
  Cardinality({k \in 1..Len(actions) : actions[k].category = category})

SeverityParts(severity) ==
  IF severity.level # "unknown"
  THEN << <<"S","e","v","e","r","i","t","y",":"," ">> \o upper(Chars(severity.level)) \o <<" ","(","c","o","n","f","i","d","e","n","c","e",":"," ">>
          \o Chars(severity.confidence) \o <<")">> >>
  ELSE <<>>

TimelineParts(timeline) ==
  IF timeline # <<>>
  THEN << <<"T","i","m","e","l","i","n","e",":"," ">> \o str(Len(timeline)) \o <<" ","e","v","e","n","t","s"," ","r","e","c","o","r","d","e","d">> >>
       \o (IF timeline[1].time # <<>>
           THEN << <<" "," ","F","i","r","s","t"," ","e","v","e","n","t",":"," ">> \o timeline[1].time >> ELSE <<>>)
       \o (IF timeline[Len(timeline)].time # <<>>
           THEN << <<" "," ","L","a","s","t"," ","e","v","e","n","t",":"," ">> \o timeline[Len(timeline)].time >> ELSE <<>>)
  ELSE <<>>

ActionsParts(actions) ==
  IF actions # <<>>
  THEN LET keys == CategoryKeys(<<>>, actions, 1)
       IN << <<"A","c","t","i","o","n","s",":"," ">> \o str(Len(actions)) \o <<" ","t","o","t","a","l">> >>
          \o [k \in 1..Len(keys) |->
                <<" "," ">> \o Chars(keys[k]) \o <<":"," ">> \o str(CategoryCount(actions, keys[k]))]
  ELSE <<>>

EntityTypes == <<"services", "ips", "domains">>

EntitiesParts(entities) ==
  LET NonEmpty(entity_type) == entities[entity_type] # <<>>
      entity_counts == SelectSeq(EntityTypes, NonEmpty)
  IN IF entity_counts # <<>>
     THEN << <<"E","n","t","i","t","i","e","s"," ","i","n","v","o","l","v","e","d",":">> >>
          \o [k \in 1..Len(entity_counts) |->
                <<" "," ">> \o Chars(entity_counts[k]) \o <<":"," ">>
                \o str(Len(entities[entity_counts[k]]))]
     ELSE <<>>

\* variant: the entities block is put before the actions block
summary_text_entities_first(timeline, actions, entities, severity) ==
  LET summary_parts == SeverityParts(severity) \o TimelineParts(timeline)
                       \o EntitiesParts(entities) \o ActionsParts(actions)
  IN IF summary_parts # <<>> THEN join(summary_parts)
     ELSE <<"N","o"," ","s","i","g","n","i","f","i","c","a","n","t"," ","d","a","t","a"," ","e","x","t","r","a","c","t","e","d">>

\* variant: the fallback text is chosen by the severity level alone
summary_text_by_severity(timeline, actions, entities, severity) ==
  IF severity.level # "unknown"
  THEN join(SeverityParts(severity) \o TimelineParts(timeline)
            \o ActionsParts(actions) \o EntitiesParts(entities))
  ELSE <<"N","o"," ","s","i","g","n","i","f","i","c","a","n","t"," ","d","a","t","a"," ","e","x","t","r","a","c","t","e","d">>

summary_text(timeline, actions, entities, severity) ==
  LET summary_parts == SeverityParts(severity) \o TimelineParts(timeline)
                       \o ActionsParts(actions) \o EntitiesParts(entities)
  IN IF summary_parts # <<>> THEN join(summary_parts)
     ELSE <<"N","o"," ","s","i","g","n","i","f","i","c","a","n","t"," ","d","a","t","a"," ","e","x","t","r","a","c","t","e","d">>

\* variant: the actions are identified on the folded text
generate_summary_folded(t) ==
  LET timeline == extract_timeline(t)
      actions == identify_actions(lower(t))
      entities == extract_entities(t)
      severity == detect_severity(t)
  IN [timeline |-> timeline, actions |-> actions, entities |-> entities,
      severity |-> severity,
      summary_text |-> summary_text(timeline, actions, entities, severity)]

generate_summary(t) ==
  LET timeline == extract_timeline(t)
      actions == identify_actions(t)
      entities == extract_entities(t)
      severity == detect_severity(t)
  IN [timeline |-> timeline, actions |-> actions, entities |-> entities,
      severity |-> severity,
      summary_text |-> summary_text(timeline, actions, entities, severity)]

\* ------------------------------------------------------------------------
\* Inputs: a str argument is a concatenation of a few fragments, a
\* multi-line text a few lines joined by newlines
\* ------------------------------------------------------------------------
RECURSIVE Concat(_)
Concat(ss) == IF ss = <<>> THEN <<>> ELSE Head(ss) \o Concat(Tail(ss))

RECURSIVE JoinLines(_)
JoinLines(ls) ==
  IF ls = <<>> THEN <<>>
  ELSE IF Len(ls) = 1 THEN ls[1]
  ELSE ls[1] \o <<"\n">> \o JoinLines(Tail(ls))

TuplesUpTo(S, n) == UNION {[1..k -> S] : k \in 0..n}

TimestampFragments == {
  <<"r","a","t","i","o"," ">>, <<"V","e","r","s","i","o","n"," ">>, <<"v","3",":","4","5"," ">>, <<"3",":","4","5">>, <<"1","2",":","3","4",":","5","6">>,
  <<"2","0","2","4","-","0","1","-","1","5"," ">>, <<" ","t","h","e","n"," ","a"," ","w","h","i","l","e"," ","l","a","t","e","r"," ","a","t"," ">>, <<" ","s","c","a","l","e","d">>, <<"9","9",":","9","9">> }

ActorFragments == {
  <<"@">>, <<"S","y","s","t","e","m"," ">>, <<"S","a","r","a","h">>, <<":"," ">>, <<"s","a","r","a","h",".","c","h","e","n">>,
  <<"A","p","i",".","E","x","a","m","p","l","e",".","C","O","M"," ">>, <<"M","i","k","e"," ","J","o","n","e","s">>, <<"@","d","e","b","u","g","-","1"," ">> }

ActionLineSamples == {
  <<"d","e","p","l","o","y","e","d"," ","t","h","e"," ","f","i","x","e","d"," ","b","u","i","l","d">>, <<"@","m","i","k","e"," ","c","h","e","c","k","e","d"," ","t","h","e"," ","l","o","g","s">>, <<"h","e","l","l","o">>, <<>>,
  <<"I","n","v","e","s","t","i","g","a","t","i","n","g",","," ","t","h","e","n"," ","R","e","s","t","a","r","t","e","d"," ","i","t">>, <<" "," "," ">>, <<" ","n","o","t","i","f","i","e","d"," ","t","e","a","m"," "," ">>,
  <<"r","e","s","t","a","r","t","e","d"," ","w","o","r","k","e","r">> }

TimelineLineSamples == {
  <<"@","s","a","r","a","h"," ","1","4",":","2","3",":"," ","S","e","e","i","n","g"," ","e","l","e","v","a","t","e","d"," ","e","r","r","o","r","s">>, <<"@","m","i","k","e"," ","c","h","e","c","k","i","n","g"," ","t","h","e"," ","l","o","g","s">>,
  <<"e","r","r","o","r"," ","r","a","t","i","o"," ","o","f"," ","3",":","4","5">>, <<"S","a","r","a","h",":"," ","b","a","c","k"," ","a","t"," ","1","2",":","3","4",":","5","6">>, <<>>, <<" "," ","0","9",":","1","5"," ","d","o","w","n"," ">>,
  <<"T","i","m","e",":"," ","2","0","2","4","-","0","1","-","1","5"," ","1","4",":","2","3">>, <<"E","r","r","o","r",":"," ","n","o"," ","t","i","m","e">> }

EntityFragments == {
  <<"1","0",".","0",".","0",".","1"," ">>, <<"1","0",".","0",".","0",".","2","5","6"," ">>, <<"a","p","i",".">>, <<"e","x","a","m","p","l","e",".","c","o","m"," ">>,
  <<"p","a","y","m","e","n","t","-","s","e","r","v","i","c","e"," ">>, <<"A","u","t","h","-","A","P","I"," ">>, <<"a",".","i","o"," ">> }

SeverityFragments == {
  <<"p","a","y","m","e","n","t"," ","s","e","r","v","i","c","e"," ">>, <<"i","s"," ","d","o","w","n",","," ">>, <<"c","o","m","p","l","e","t","e"," ","o","u","t","a","g","e">>, <<" ","C","r","i","t","i","c","a","l">>,
  <<" ","s","l","o","w"," ","t","i","m","e","o","u","t">>, <<" ","s","p","i","k","e">>, <<" ","i","n","t","e","r","m","i","t","t","e","n","t">>, <<" ","m","i","n","o","r">> }

SummaryLineSamples == {
  <<"@","s","a","r","a","h"," ","1","4",":","2","3",":"," ","p","a","y","m","e","n","t","-","s","e","r","v","i","c","e"," ","i","s"," ","d","o","w","n">>, <<"@","m","i","k","e"," ","1","4",":","2","5",":"," ","D","e","p","l","o","y","e","d"," ","f","i","x"," ","t","o"," ","1","0",".","0",".","0",".","1">>,
  <<"S","a","r","a","h",":"," ","c","h","e","c","k","e","d"," ","a","p","i",".","e","x","a","m","p","l","e",".","c","o","m">>, <<>>, <<"r","e","s","t","a","r","t","e","d"," ","a","u","t","h","-","w","o","r","k","e","r",","," ","n","o","t","i","f","i","e","d"," ","t","e","a","m">>,
  <<"h","e","l","l","o">>, <<"r","e","s","o","l","v","e","d"," ","a","t"," ","0","9",":","1","5",","," ","m","i","n","o","r"," ","s","p","i","k","e">>, <<"E","r","r","o","r",":"," ","d","e","g","r","a","d","e","d",","," ","2","5","6",".","1",".","1",".","1"," ","u","n","r","e","a","c","h","a","b","l","e">> }

TimestampInputs == {Concat(fs) : fs \in TuplesUpTo(TimestampFragments, MaxFrags)}
ActorInputs == {Concat(fs) : fs \in TuplesUpTo(ActorFragments, MaxFrags)}
ActionInputs == {JoinLines(ls) : ls \in TuplesUpTo(ActionLineSamples, MaxLines)}
TimelineInputs == {JoinLines(ls) : ls \in TuplesUpTo(TimelineLineSamples, MaxLines)}
EntityInputs == {Concat(fs) : fs \in TuplesUpTo(EntityFragments, MaxEntityFrags)}
SeverityInputs == {Concat(fs) : fs \in TuplesUpTo(SeverityFragments, MaxSeverityFrags)}
SummaryInputs == {JoinLines(ls) : ls \in TuplesUpTo(SummaryLineSamples, MaxSummaryLines)}

\* ------------------------------------------------------------------------
\* json.dumps as server.py calls it.  A Python value handed to the encoder
\* is a tagged tree: a str, an int, a list of values, or a dict as the
\* sequence of its <<key, value>> items in insertion order
\* ------------------------------------------------------------------------
PyStr(s) == [type |-> "str", value |-> s]
PyInt(n) == [type |-> "int", value |-> n]
PyList(items) == [type |-> "list", value |-> items]
PyDict(items) == [type |-> "dict", value |-> items]

\* the escape of one character (printable ASCII and the whitespace controls)
EscapeChar(c) ==
  IF c = "\"" THEN <<"\\", "\"">>
  ELSE IF c = "\\" THEN <<"\\", "\\">>
  ELSE IF c = "\n" THEN <<"\\", "n">>
  ELSE IF c = "\r" THEN <<"\\", "r">>
  ELSE IF c = "\t" THEN <<"\\", "t">>
  ELSE <<c>>

encode_basestring_ascii(s) ==
  <<"\"">> \o Concat([i \in 1..Len(s) |-> EscapeChar(s[i])]) \o <<"\"">>

RECURSIVE JoinWith(_, _)
JoinWith(chunks, separator) ==
  IF chunks = <<>> THEN <<>>
  ELSE IF Len(chunks) = 1 THEN chunks[1]
  ELSE chunks[1] \o separator \o JoinWith(Tail(chunks), separator)

\* the line break and indentation in front of an item at the given depth
NewlineIndent(indent, level) == <<"\n">> \o Concat([i \in 1..level |-> indent])

\* a non-empty list or dict: without indent the items are separated by
\* ", ", with indent each item stands on a line of its own
Container(open, close, chunks, indent, level) ==
  IF indent = None
  THEN open \o JoinWith(chunks, <<","," ">>) \o close
  ELSE open \o NewlineIndent(indent, level + 1)
            \o JoinWith(chunks, <<",">> \o NewlineIndent(indent, level + 1))
            \o NewlineIndent(indent, level) \o close

RECURSIVE iterencode(_, _, _)
iterencode(o, indent, level) ==
  CASE o.type = "str" -> encode_basestring_ascii(o.value)
    [] o.type = "list" ->
         IF o.value = <<>> THEN <<"[","]">>
         ELSE Container(<<"[">>, <<"]">>,
                [i \in 1..Len(o.value) |-> iterencode(o.value[i], indent, level + 1)],
                indent, level)
    [] o.type = "dict" ->
         IF o.value = <<>> THEN <<"{","}">>
         ELSE Container(<<"{">>, <<"}">>,
                [i \in 1..Len(o.value) |->
                   encode_basestring_ascii(o.value[i][1]) \o <<":"," ">>
                     \o iterencode(o.value[i][2], indent, level + 1)],
                indent, level)

Spaces(n) == [i \in 1..n |-> " "]

\* json.dumps(obj) and json.dumps(obj, indent=n)
json_dumps(obj) == iterencode(obj, None, 0)
json_dumps_indent(obj, n) == iterencode(obj, Spaces(n), 0)

\* ------------------------------------------------------------------------
\* The values the engine returns, as the encoder sees them: every dict with
\* its keys in the order the engine inserts them
\* ------------------------------------------------------------------------
StrList(ss) == PyList([i \in 1..Len(ss) |-> PyStr(ss[i])])

EventValue(event) ==
  PyDict(<< <<<<"t","i","m","e">>, PyStr(event.time)>>, <<<<"t","e","x","t">>, PyStr(event.text)>> >>
         \o (IF "actor" \in DOMAIN event
             THEN << <<<<"a","c","t","o","r">>, PyStr(event.actor)>> >> ELSE <<>>))

TimelineValue(events) == PyList([i \in 1..Len(events) |-> EventValue(events[i])])

ActionValue(action) ==
  PyDict(<< <<<<"a","c","t","i","o","n">>, PyStr(action.action)>>,
            <<<<"c","a","t","e","g","o","r","y">>, PyStr(Chars(action.category))>>,
            <<<<"c","o","n","t","e","x","t">>, PyStr(action.context)>> >>)

ActionsValue(actions) == PyList([i \in 1..Len(actions) |-> ActionValue(actions[i])])

EntitiesValue(entities) ==
  PyDict(<< <<<<"s","e","r","v","i","c","e","s">>, StrList(entities.services)>>,
            <<<<"i","p","s">>, StrList(entities.ips)>>,
            <<<<"d","o","m","a","i","n","s">>, StrList(entities.domains)>> >>)

SeverityValue(severity) ==
  PyDict(<< <<<<"l","e","v","e","l">>, PyStr(Chars(severity.level))>>,
            <<<<"c","o","n","f","i","d","e","n","c","e">>, PyStr(Chars(severity.confidence))>>,
            <<<<"i","n","d","i","c","a","t","o","r","s">>, StrList(severity.indicators)>> >>)

SummaryValue(summary) ==
  PyDict(<< <<<<"t","i","m","e","l","i","n","e">>, TimelineValue(summary.timeline)>>,
            <<<<"a","c","t","i","o","n","s">>, ActionsValue(summary.actions)>>,
            <<<<"e","n","t","i","t","i","e","s">>, EntitiesValue(summary.entities)>>,
            <<<<"s","e","v","e","r","i","t","y">>, SeverityValue(summary.severity)>>,
            <<<<"s","u","m","m","a","r","y","_","t","e","x","t">>, PyStr(summary.summary_text)>> >>)

\* ------------------------------------------------------------------------
\* server.py: call_tool
\* ------------------------------------------------------------------------
TextContent(t) == [type |-> "text", text |-> t]
ErrorObject(message) == PyDict(<< <<<<"e","r","r","o","r">>, PyStr(message)>> >>)

EmptyDict == [k \in {} |-> k]

\* arguments.get(key, default)
get(args, key, default) == IF key \in DOMAIN args THEN args[key] ELSE default

\* variant: only an absent value counts as no text
NotNone(v) == FALSE

\* Python `not v` for a str or an int
Not(v) == IF v.type = "str" THEN v.value = <<>> ELSE v.value = 0

\* the outcome of an engine function called inside the try block
Raised(message) == [raised |-> TRUE, message |-> message]
Returned(value) == [raised |-> FALSE, value |-> value]

\* str(e) of the AttributeError a str method raises on an int
AttributeError(method) == <<"'","i","n","t","'"," ","o","b","j","e","c","t"," ","h","a","s"," ","n","o"," ","a","t","t","r","i","b","u","t","e"," ","'">> \o method \o <<"'">>

\* the engine functions applied to the value of arguments["text"]: the
\* first str method a function calls raises when the value is no str
CallExtractTimeline(v) ==
  IF v.type # "str" THEN Raised(AttributeError(<<"s","t","r","i","p">>))
  ELSE Returned(TimelineValue(extract_timeline(v.value)))

CallIdentifyActions(v) ==
  IF v.type # "str" THEN Raised(AttributeError(<<"s","t","r","i","p">>))
  ELSE Returned(ActionsValue(identify_actions(v.value)))

CallExtractEntities(v) ==
  IF v.type # "str" THEN Raised(AttributeError(<<"l","o","w","e","r">>))
  ELSE Returned(EntitiesValue(extract_entities(v.value)))

CallDetectSeverity(v) ==
  IF v.type # "str" THEN Raised(AttributeError(<<"l","o","w","e","r">>))
  ELSE Returned(SeverityValue(detect_severity(v.value)))

CallGenerateSummary(v) ==
  IF v.type # "str" THEN Raised(AttributeError(<<"s","t","r","i","p">>))
  ELSE Returned(SummaryValue(generate_summary(v.value)))

\* the end of the try block and its except clause
Respond(fn, outcome) ==
  IF outcome.raised
  THEN [returned |-> << TextContent(json_dumps(ErrorObject(outcome.message))) >>,
        invoked |-> <<fn>>]
  ELSE [returned |-> << TextContent(json_dumps_indent(outcome.value, 2)) >>,
        invoked |-> <<fn>>]

UnknownTool(n) ==
  [returned |-> << TextContent(json_dumps(ErrorObject(<<"U","n","k","n","o","w","n"," ","t","o","o","l",":"," ">> \o n))) >>,
   invoked |-> <<>>]

\* variant: the first two branches of the chain are exchanged
RouteSwapped(n, v) ==
  IF n = <<"e","x","t","r","a","c","t","_","t","i","m","e","l","i","n","e">> THEN Respond("identify_actions", CallIdentifyActions(v))
  ELSE IF n = <<"i","d","e","n","t","i","f","y","_","a","c","t","i","o","n","s">> THEN Respond("extract_timeline", CallExtractTimeline(v))
  ELSE IF n = <<"e","x","t","r","a","c","t","_","e","n","t","i","t","i","e","s">> THEN Respond("extract_entities", CallExtractEntities(v))
  ELSE IF n = <<"d","e","t","e","c","t","_","s","e","v","e","r","i","t","y">> THEN Respond("detect_severity", CallDetectSeverity(v))
  ELSE IF n = <<"g","e","n","e","r","a","t","e","_","s","u","m","m","a","r","y">> THEN Respond("generate_summary", CallGenerateSummary(v))
  ELSE UnknownTool(n)

\* the if/elif chain on the tool name
Route(n, v) ==
  IF n = <<"e","x","t","r","a","c","t","_","t","i","m","e","l","i","n","e">> THEN Respond("extract_timeline", CallExtractTimeline(v))
  ELSE IF n = <<"i","d","e","n","t","i","f","y","_","a","c","t","i","o","n","s">> THEN Respond("identify_actions", CallIdentifyActions(v))
  ELSE IF n = <<"e","x","t","r","a","c","t","_","e","n","t","i","t","i","e","s">> THEN Respond("extract_entities", CallExtractEntities(v))
  ELSE IF n = <<"d","e","t","e","c","t","_","s","e","v","e","r","i","t","y">> THEN Respond("detect_severity", CallDetectSeverity(v))
  ELSE IF n = <<"g","e","n","e","r","a","t","e","_","s","u","m","m","a","r","y">> THEN Respond("generate_summary", CallGenerateSummary(v))
  ELSE UnknownTool(n)

\* call_tool after `text = arguments.get("text", "")`
CallToolWith(n, v) ==
  IF Not(v)
  THEN [returned |-> << TextContent(json_dumps(ErrorObject(<<"N","o"," ","t","e","x","t"," ","p","r","o","v","i","d","e","d">>))) >>,
        invoked |-> <<>>]
  ELSE Route(n, v)

call_tool(n, args) == CallToolWith(n, get(args, "text", PyStr(<<>>)))

\* the requests the handler is given: the five tools, names that are no
\* tool, and arguments without text, with a str and with an int as text
ToolNames == {
  <<"e","x","t","r","a","c","t","_","t","i","m","e","l","i","n","e">>, <<"i","d","e","n","t","i","f","y","_","a","c","t","i","o","n","s">>, <<"e","x","t","r","a","c","t","_","e","n","t","i","t","i","e","s">>,
  <<"d","e","t","e","c","t","_","s","e","v","e","r","i","t","y">>, <<"g","e","n","e","r","a","t","e","_","s","u","m","m","a","r","y">>,
  <<"u","n","k","n","o","w","n","_","t","o","o","l">>, <<"s","a","y"," ","\"","h","i","\"">>, <<>> }

TextSamples == <<
  <<>>, <<" "," "," ">>, <<"h","e","l","l","o">>,
  <<"@","s","a","r","a","h"," ","1","4",":","2","3",":"," ","p","a","y","m","e","n","t","-","s","e","r","v","i","c","e"," ","i","s"," ","d","o","w","n","\n","@","m","i","k","e"," ","1","4",":","2","5",":"," ","D","e","p","l","o","y","e","d"," ","f","i","x"," ","t","o"," ","1","0",".","0",".","0",".","1">>,
  <<"S","a","r","a","h",":"," ","s","a","i","d"," ","\"","r","o","l","l","b","a","c","k","\""," ","a","t"," ","0","9",":","1","5">>,
  <<"C",":","\\","t","e","m","p"," ","s","l","o","w","\t","t","i","m","e","o","u","t",","," ","m","i","n","o","r">> >>

ArgumentSamples ==
  <<EmptyDict>> \o [i \in 1..Len(TextSamples) |-> [text |-> PyStr(TextSamples[i])]]
                \o << [text |-> PyInt(0)], [text |-> PyInt(7)] >>

\* ------------------------------------------------------------------------
\* The engine as a state machine: no call in progress (name = "none"), or
\* the function `name` has been applied to `text` and holds `result`
\* ------------------------------------------------------------------------
\* what call_tool was given and which engine functions it invoked; unset
\* while no request is served
request == <<tool, arguments, invoked>>
NoRequest == tool = <<>> /\ arguments = EmptyDict /\ invoked = <<>>

Init == name = "none" /\ text = <<>> /\ result = <<>> /\ NoRequest

FindTimestamp ==
  /\ name = "none"
  /\ \E t \in TimestampInputs :
       /\ name' = "_find_timestamp"
       /\ text' = t
       /\ result' = _find_timestamp(t)
  /\ UNCHANGED request

FindActor ==
  /\ name = "none"
  /\ \E t \in ActorInputs :
       /\ name' = "_find_actor"
       /\ text' = t
       /\ result' = _find_actor(t)
  /\ UNCHANGED request

ExtractTimeline ==
  /\ name = "none"
  /\ \E t \in TimelineInputs :
       /\ name' = "extract_timeline"
       /\ text' = t
       /\ result' = extract_timeline(t)
  /\ UNCHANGED request

IdentifyActions ==
  /\ name = "none"
  /\ \E t \in ActionInputs :
       /\ name' = "identify_actions"
       /\ text' = t
       /\ result' = identify_actions(t)
  /\ UNCHANGED request

ExtractEntities ==
  /\ name = "none"
  /\ \E t \in EntityInputs :
       /\ name' = "extract_entities"
       /\ text' = t
       /\ result' = extract_entities(t)
  /\ UNCHANGED request

DetectSeverity ==
  /\ name = "none"
  /\ \E t \in SeverityInputs :
       /\ name' = "detect_severity"
       /\ text' = t
       /\ result' = detect_severity(t)
  /\ UNCHANGED request

GenerateSummary ==
  /\ name = "none"
  /\ \E t \in SummaryInputs :
       /\ name' = "generate_summary"
       /\ text' = t
       /\ result' = generate_summary(t)
  /\ UNCHANGED request

\* the handler serves one request: it reads the text, answers at once when
\* there is none, and otherwise routes to the engine and encodes what the
\* engine returned or raised
CallToolReturns(n, args, v, out) ==
  /\ name' = "call_tool"
  /\ tool' = n
  /\ arguments' = args
  /\ text' = v
  /\ result' = out.returned
  /\ invoked' = out.invoked

CallToolServes(n, args) ==
  CallToolReturns(n, args, get(args, "text", PyStr(<<>>)), call_tool(n, args))

CallTool ==
  /\ name = "none"
  /\ \E n \in ToolNames, k \in 1..Len(ArgumentSamples) :
       CallToolServes(n, ArgumentSamples[k])

\* the call returns; the engine keeps nothing of it
Return ==
  /\ name # "none"
  /\ name' = "none" /\ text' = <<>> /\ result' = <<>>
  /\ tool' = <<>> /\ arguments' = EmptyDict /\ invoked' = <<>>

Next ==
  \/ FindTimestamp \/ FindActor \/ ExtractTimeline \/ IdentifyActions
  \/ ExtractEntities \/ DetectSeverity \/ GenerateSummary \/ CallTool
  \/ Return

Spec == Init /\ [][Next]_vars

\* ------------------------------------------------------------------------
\* Properties
\* ------------------------------------------------------------------------
\* the trimmed lines of a text, blank ones included
TrimmedLines(t) ==
  LET lines == Lines(t)
  IN [i \in 1..Len(lines) |-> strip(lines[i])]

\* the categories (registry indices) with a keyword inside the folded line
CategoriesIn(line) ==
  {c \in 1..Len(ACTION_KEYWORDS) :
     \E k \in 1..Len(ACTION_KEYWORDS[c].keywords) :
        Contains(ACTION_KEYWORDS[c].keywords[k], lower(line))}

\* C1: identify_actions returns as many Actions as there are non-blank
\* trimmed lines containing a registry keyword, repeated line texts included
C1_OneActionPerKeywordLine ==
  name = "identify_actions" =>
    LET lines == TrimmedLines(text)
    IN Len(result) = Cardinality({i \in 1..Len(lines) :
                                    lines[i] # <<>> /\ CategoriesIn(lines[i]) # {}})

\* C2: identify_actions never emits more than one Action per non-blank
\* input line: the Actions carrying a given context are at most as many as
\* the non-blank lines with that text
C2_AtMostOneActionPerLine ==
  name = "identify_actions" =>
    LET lines == TrimmedLines(text)
    IN /\ \A j \in 1..Len(result) :
            Cardinality({m \in 1..Len(result) : result[m].context = result[j].context})
              <= Cardinality({i \in 1..Len(lines) :
                                lines[i] # <<>> /\ lines[i] = result[j].context})
       /\ Len(result) <= Cardinality({i \in 1..Len(lines) : lines[i] # <<>>})

\* a line with keywords of several categories yielded exactly one Action
C2_Witness ==
  /\ name = "identify_actions"
  /\ Len(TrimmedLines(text)) = 1
  /\ Cardinality(CategoriesIn(TrimmedLines(text)[1])) >= 2
  /\ Len(result) = 1

\* C3: every Action carries the first category, in the order investigation,
\* remediation, communication, status, that has a keyword inside the folded
\* line, and the first such keyword of that category's list
C3_FirstCategoryFirstKeyword ==
  name = "identify_actions" =>
    \A j \in 1..Len(result) :
      LET folded == lower(result[j].context)
          cats == CategoriesIn(result[j].context)
          first == ACTION_KEYWORDS[SetMin(cats)]
          hits == {k \in 1..Len(first.keywords) : Contains(first.keywords[k], folded)}
      IN /\ cats # {}
         /\ result[j].category = first.category
         /\ result[j].action = first.keywords[SetMin(hits)]
         /\ (1 \in cats => result[j].category = "investigation")

\* an Action for a line that holds an investigation and a remediation keyword
C3_Witness ==
  /\ name = "identify_actions"
  /\ \E j \in 1..Len(result) :
       /\ {1, 2} \subseteq CategoriesIn(result[j].context)
       /\ result[j].category = "investigation"

\* the registry indices of the timestamp patterns that match the line
MatchingTimestampPatterns(line) ==
  {p \in 1..Len(TIMESTAMP_PATTERNS) : SearchTimestamp(TIMESTAMP_PATTERNS[p], line) # NoMatch}

TimestampMatch(p, line) == SearchTimestamp(TIMESTAMP_PATTERNS[p], line)

\* the first pattern that matches the line has its match rejected
FirstTimestampMatchRejected(line) ==
  /\ MatchingTimestampPatterns(line) # {}
  /\ ~_is_likely_timestamp(line, TimestampMatch(SetMin(MatchingTimestampPatterns(line)), line).text)

\* the up-to-20 folded characters before the place where the pattern matched
WindowBeforeMatch(line, m) == Slice(lower(line), Max0(m.start - 20), m.start)

\* C4 as stated: when the first timestamp pattern that matches has its match
\* rejected by the context filter, _find_timestamp reports no timestamp
C4_NoFallbackAfterRejection ==
  (name = "_find_timestamp" /\ FirstTimestampMatchRejected(text)) => result = None

\* C4 amended: when the first timestamp pattern that matches has its match
\* rejected, _find_timestamp goes on through the later patterns and returns
\* the match of the first one the context filter accepts; it reports no
\* timestamp only when the filter rejects the match of every matching pattern
C4_FallbackAfterRejection ==
  (name = "_find_timestamp" /\ FirstTimestampMatchRejected(text)) =>
    LET accepted == {p \in MatchingTimestampPatterns(text) :
                       _is_likely_timestamp(text, TimestampMatch(p, text).text)}
    IN result = IF accepted = {} THEN None
                ELSE TimestampMatch(SetMin(accepted), text).text

\* the first match was rejected and a later pattern supplied the timestamp
C4_Witness ==
  /\ name = "_find_timestamp"
  /\ FirstTimestampMatchRejected(text)
  /\ result # None

\* C5: a pattern match whose preceding 20-character window holds ratio,
\* version or scaled (case-insensitively) is rejected, so _find_timestamp
\* never returns it
C5_RejectedWhenWordInWindow ==
  name = "_find_timestamp" =>
    \A p \in MatchingTimestampPatterns(text) :
      HasFalsePositiveWord(WindowBeforeMatch(text, TimestampMatch(p, text)))
        => result # TimestampMatch(p, text).text

\* C6: a pattern match is not suppressed when every occurrence of ratio,
\* version and scaled lies after the match or ends more than 20 characters
\* before it
C6_DirectionalWindowedFilter ==
  name = "_find_timestamp" =>
    \A p \in MatchingTimestampPatterns(text) :
      LET m == TimestampMatch(p, text)
          outside == \A w \in 1..Len(false_positive_words) :
                       \A k \in 0..Len(text) :
                         OccursAt(false_positive_words[w], lower(text), k) =>
                           \/ k >= m.start + Len(m.text)
                           \/ k + Len(false_positive_words[w]) <= m.start - 20
      IN outside => result # None

\* C7 as stated: when the @mention pattern captures a name that the filter
\* rejects, _find_actor returns no actor
C7_NoFallbackToNameColon ==
  (/\ name = "_find_actor"
   /\ SearchActor("mention", text) # NoMatch
   /\ ~_is_likely_actor(SearchActor("mention", text).group)) => result = None

\* C7 amended: when the @mention pattern captures a name that the filter
\* rejects, _find_actor falls back to the name-colon pattern: it returns that
\* pattern's captured name when it matches and passes the filter, and no
\* actor otherwise
C7_FallbackToNameColon ==
  (/\ name = "_find_actor"
   /\ SearchActor("mention", text) # NoMatch
   /\ ~_is_likely_actor(SearchActor("mention", text).group)) =>
    LET nc == SearchActor("name_colon", text)
    IN result = IF nc # NoMatch /\ _is_likely_actor(nc.group) THEN nc.group ELSE None

\* the mention was rejected and the name before a colon was returned
C7_Witness ==
  /\ name = "_find_actor"
  /\ SearchActor("mention", text) # NoMatch
  /\ ~_is_likely_actor(SearchActor("mention", text).group)
  /\ result # None

\* C8: for a line that starts with a lowercase firstname.lastname followed
\* by a colon and holds no @mention, _find_actor returns the dotted name
C8_AcceptsDottedLowercaseName ==
  LET n1 == RunLen(text, 1, LowerChars)
      n2 == RunLen(text, n1 + 2, LowerChars)
  IN (/\ name = "_find_actor"
      /\ n1 >= 1 /\ At(text, n1 + 1) = "." /\ n2 >= 1
      /\ At(text, n1 + n2 + 2) = ":"
      /\ "@" \notin Range(text)) => result = SubSeq(text, 1, n1 + n2 + 1)

\* C9: no actor returned by _find_actor, and no actor field of an Event,
\* is a reserved label or ends with a common top-level-domain suffix,
\* compared case-insensitively
C9_NoLabelOrDomainActor ==
  LET Reserved == { <<"t","i","m","e">>, <<"e","r","r","o","r">>, <<"s","t","a","t","u","s">>, <<"n","o","t","e">>, <<"w","a","r","n","i","n","g">>,
                    <<"i","n","f","o">>, <<"d","e","b","u","g">>, <<"s","y","s","t","e","m">> }
      Suffixes == { <<".","c","o","m">>, <<".","o","r","g">>, <<".","n","e","t">>, <<".","i","o">>, <<".","c","o">>, <<".","e","d","u">>, <<".","g","o","v">> }
      Allowed(a) == /\ lower(a) \notin Reserved
                    /\ \A x \in Suffixes : ~endswith(lower(a), x)
  IN /\ (name = "_find_actor" /\ result # None) => Allowed(result)
     /\ name = "extract_timeline" =>
          \A j \in 1..Len(result) :
            "actor" \in DOMAIN result[j] => Allowed(result[j].actor)

\* a capitalised reserved label was captured and no actor came back
C9_Witness ==
  /\ name = "_find_actor"
  /\ SearchActor("mention", text) # NoMatch
  /\ SearchActor("mention", text).group = <<"S","y","s","t","e","m">>
  /\ result = None

\* C10: extract_timeline emits an Event for a non-blank trimmed line exactly
\* when _find_timestamp returns a timestamp for it: per line text there are
\* as many Events as lines with that text and a timestamp, whether or not
\* the line names an actor
C10_EventIffTimestamp ==
  name = "extract_timeline" =>
    LET ls == TrimmedLines(text)
        timed == {i \in 1..Len(ls) : ls[i] # <<>> /\ _find_timestamp(ls[i]) # None}
    IN /\ Len(result) = Cardinality(timed)
       /\ \A i \in 1..Len(ls) :
            Cardinality({j \in 1..Len(result) : result[j].text = ls[i]})
              = Cardinality({k \in timed : ls[k] = ls[i]})
       /\ \A j \in 1..Len(result) : result[j].time = _find_timestamp(result[j].text)

\* a text with a timed line and an untimed line that names an actor gave
\* one Event, for the timed line
C10_Witness ==
  /\ name = "extract_timeline"
  /\ Len(result) = 1
  /\ \E i \in 1..Len(TrimmedLines(text)) :
       /\ _find_actor(TrimmedLines(text)[i]) # None
       /\ _find_timestamp(TrimmedLines(text)[i]) = None
       /\ result[1].text # TrimmedLines(text)[i]

\* C11: the Events are in input line order: their texts are the trimmed
\* non-blank lines that have a timestamp, taken in the order of the input,
\* whatever the clock times say
C11_EventsInLineOrder ==
  name = "extract_timeline" =>
    LET lines == TrimmedLines(text)
    IN \E pos \in [1..Len(result) -> 1..Len(lines)] :
         /\ \A j \in 1..Len(result) : result[j].text = lines[pos[j]]
         /\ \A j \in 1..Len(result) : lines[pos[j]] # <<>>
         /\ \A j, k \in 1..Len(result) : j < k => pos[j] < pos[k]

\* the line with the later clock time came first and stayed first
C11_Witness ==
  /\ name = "extract_timeline"
  /\ Len(result) = 2
  /\ result[1].time = <<"1","4",":","2","3">>
  /\ result[2].time = <<"0","9",":","1","5">>

\* the matches of the scan that fills a list of extract_entities: services
\* and domains are scanned in the folded text, ips in the text as given
ScanOf(kind, t) ==
  CASE kind = "services" -> finditer("service", lower(t))
    [] kind = "ips" -> finditer("ip", t)
    [] kind = "domains" -> finditer("domain", lower(t))

\* C12: none of the lists services, ips, domains returned by
\* extract_entities holds the same value twice
C12_NoDuplicateEntities ==
  name = "extract_entities" =>
    \A kind \in {"services", "ips", "domains"} :
      \A j, k \in 1..Len(result[kind]) : j # k => result[kind][j] # result[kind][k]

\* a service name matched more than once and is listed once
C12_Witness ==
  /\ name = "extract_entities"
  /\ Len(result.services) = 1
  /\ Cardinality({k \in 1..Len(ScanOf("services", text)) :
                    ScanOf("services", text)[k].group = result.services[1]}) >= 2

\* C13: within each list of extract_entities the values stand in the order
\* of their first match in that list's scan of the text
C13_FirstOccurrenceOrder ==
  name = "extract_entities" =>
    \A kind \in {"services", "ips", "domains"} :
      LET scan == ScanOf(kind, text)
          FirstAt(v) == SetMin({scan[m].start : m \in {n \in 1..Len(scan) : scan[n].group = v}})
      IN /\ \A j \in 1..Len(result[kind]) :
              \E m \in 1..Len(scan) : scan[m].group = result[kind][j]
         /\ \A j, k \in 1..Len(result[kind]) :
              j < k => FirstAt(result[kind][j]) < FirstAt(result[kind][k])

\* two services are listed, and the one listed first matched again after
\* the other one
C13_Witness ==
  /\ name = "extract_entities"
  /\ Len(result.services) = 2
  /\ Len(ScanOf("services", text)) = 3
  /\ ScanOf("services", text)[3].group = result.services[1]

\* C14: every listed ip is four dot-separated groups of digits, each an
\* integer from 0 to 255; a match with a group above 255 is not listed
C14_ListedIpsInRange ==
  name = "extract_entities" =>
    /\ \A j \in 1..Len(result.ips) :
         LET groups == split_on(result.ips[j], ".")
         IN /\ Len(groups) = 4
            /\ \A g \in 1..4 :
                 /\ Len(groups[g]) \in 1..3
                 /\ \A c \in 1..Len(groups[g]) : groups[g][c] \in DigitChars
                 /\ int(groups[g]) \in 0..255
    /\ LET scan == ScanOf("ips", text)
       IN \A m \in 1..Len(scan) :
            (\E g \in 1..4 : int(split_on(scan[m].group, ".")[g]) > 255)
              => ~InList(scan[m].group, result.ips)

\* the text holds 10.0.0.1 and 10.0.0.256, and only the first is listed
C14_Witness ==
  /\ name = "extract_entities"
  /\ result.ips = << <<"1","0",".","0",".","0",".","1">> >>
  /\ \E m \in 1..Len(ScanOf("ips", text)) : ScanOf("ips", text)[m].group = <<"1","0",".","0",".","0",".","2","5","6">>

\* C15: no listed domain is shorter than 5 characters or is exactly
\* example.com, test.com or localhost.local; a matched domain of 5 or more
\* characters that only ends in a placeholder, as api.example.com, is listed
C15_DomainsFiltered ==
  LET Placeholders == { <<"e","x","a","m","p","l","e",".","c","o","m">>, <<"t","e","s","t",".","c","o","m">>, <<"l","o","c","a","l","h","o","s","t",".","l","o","c","a","l">> }
  IN name = "extract_entities" =>
       /\ \A j \in 1..Len(result.domains) :
            Len(result.domains[j]) >= 5 /\ result.domains[j] \notin Placeholders
       /\ LET scan == ScanOf("domains", text)
          IN \A m \in 1..Len(scan) :
               (Len(scan[m].group) >= 5 /\ scan[m].group \notin Placeholders)
                 => InList(scan[m].group, result.domains)

\* example.com and api.example.com both matched; only the longer is listed
C15_Witness ==
  /\ name = "extract_entities"
  /\ result.domains = << <<"a","p","i",".","e","x","a","m","p","l","e",".","c","o","m">> >>
  /\ \E m \in 1..Len(ScanOf("domains", text)) :
       ScanOf("domains", text)[m].group = <<"e","x","a","m","p","l","e",".","c","o","m">>

\* the keywords (list indices) of severity level l that the folded text holds
SeverityHits(l, t) ==
  {k \in 1..Len(SEVERITY_KEYWORDS[l].keywords) :
     Contains(SEVERITY_KEYWORDS[l].keywords[k], lower(t))}

\* C16: detect_severity reports the highest-priority level, in the order
\* critical, high, medium, low, that has a keyword inside the folded text;
\* its indicators are keywords of that level found in the text, and no
\* keyword of another level is among them
C16_HighestLevelOnly ==
  name = "detect_severity" =>
    LET Priority == <<"critical", "high", "medium", "low">>
        Row(w) == CHOOSE l \in 1..Len(SEVERITY_KEYWORDS) : SEVERITY_KEYWORDS[l].level = w
        found == {p \in 1..4 : SeverityHits(Row(Priority[p]), text) # {}}
    IN IF found = {} THEN result.level = "unknown" /\ result.indicators = <<>>
       ELSE LET top == Row(Priority[SetMin(found)])
                hits == SeverityHits(top, text)
            IN /\ result.level = Priority[SetMin(found)]
               /\ result.indicators # <<>>
               /\ \A j \in 1..Len(result.indicators) :
                    /\ \E k \in hits :
                         SEVERITY_KEYWORDS[top].keywords[k] = result.indicators[j]
                    /\ \A l \in 1..Len(SEVERITY_KEYWORDS) :
                         l # top => ~InList(result.indicators[j], SEVERITY_KEYWORDS[l].keywords)

\* critical and low keywords both occur and critical is reported
C16_Witness ==
  /\ name = "detect_severity"
  /\ SeverityHits(1, text) # {}
  /\ SeverityHits(4, text) # {}
  /\ result.level = "critical"

\* C17: the confidence follows from the number of indicators alone: three
\* or more give high, one or two medium, none low
C17_ConfidenceFromCount ==
  name = "detect_severity" =>
    /\ Len(result.indicators) >= 3 => result.confidence = "high"
    /\ Len(result.indicators) \in {1, 2} => result.confidence = "medium"
    /\ Len(result.indicators) = 0 => result.confidence = "low"

\* two indicators were found and the confidence is medium
C17_Witness ==
  /\ name = "detect_severity"
  /\ Len(result.indicators) = 2
  /\ result.confidence = "medium"

\* C18: when the text holds the phrase "is down", detect_severity reports
\* level critical and "is down" is one of the indicators
C18_IsDownIndicator ==
  (name = "detect_severity" /\ Contains(<<"i","s"," ","d","o","w","n">>, lower(text))) =>
    /\ result.level = "critical"
    /\ InList(<<"i","s"," ","d","o","w","n">>, result.indicators)

C20_SummaryFieldsAreDirectResults ==
  name = "generate_summary" =>
    /\ result.timeline = extract_timeline(text)
    /\ result.actions = identify_actions(text)
    /\ result.entities = extract_entities(text)
    /\ result.severity = detect_severity(text)

\* a summary in which all four fields carry data, from a text with capitals
C20_Witness ==
  /\ name = "generate_summary"
  /\ result.timeline # <<>>
  /\ result.actions # <<>>
  /\ result.entities.ips # <<>>
  /\ result.severity.level # "unknown"
  /\ lower(text) # text

\* C21: the summary text is "No significant data extracted" exactly when
\* the severity level is unknown and the timeline, the actions and the
\* three entity lists are all empty; the empty text is such a case
C21_NoDataLiteralIffAllEmpty ==
  name = "generate_summary" =>
    /\ (result.summary_text = <<"N","o"," ","s","i","g","n","i","f","i","c","a","n","t"," ","d","a","t","a"," ","e","x","t","r","a","c","t","e","d">>)
          <=> (/\ result.severity.level = "unknown"
               /\ result.timeline = <<>>
               /\ result.actions = <<>>
               /\ result.entities.services = <<>>
               /\ result.entities.ips = <<>>
               /\ result.entities.domains = <<>>)
    /\ (text = <<>> => result.summary_text = <<"N","o"," ","s","i","g","n","i","f","i","c","a","n","t"," ","d","a","t","a"," ","e","x","t","r","a","c","t","e","d">>)

\* a text that is not empty and yields no data at all
C21_Witness ==
  /\ name = "generate_summary"
  /\ text # <<>>
  /\ result.summary_text = <<"N","o"," ","s","i","g","n","i","f","i","c","a","n","t"," ","d","a","t","a"," ","e","x","t","r","a","c","t","e","d">>

\* C24: the patterns are tried most specific first, wherever their matches
\* stand in the line: an accepted full datetime is returned even when a
\* bare time stands before it, and when no full datetime is accepted an
\* accepted HH:MM:SS is returned in preference to a bare HH:MM
C24_MostSpecificPatternFirst ==
  name = "_find_timestamp" =>
    LET full == SearchTimestamp("full_datetime", text)
        secs == SearchTimestamp("time_with_seconds", text)
        Accepted(m) == m # NoMatch /\ _is_likely_timestamp(text, m.text)
    IN /\ Accepted(full) => result = full.text
       /\ (~Accepted(full) /\ Accepted(secs)) => result = secs.text

\* a bare HH:MM stands before the full datetime that is returned
C24_Witness ==
  /\ name = "_find_timestamp"
  /\ SearchTimestamp("full_datetime", text) # NoMatch
  /\ SearchTimestamp("simple_time", text) # NoMatch
  /\ SearchTimestamp("simple_time", text).start < SearchTimestamp("full_datetime", text).start
  /\ result = SearchTimestamp("full_datetime", text).text

\* the HH:MM[:SS] part of a returned timestamp: what follows its last blank
TimePart(ts) ==
  LET blanks == {i \in 1..Len(ts) : IsSpace(ts[i])}
  IN IF blanks = {} THEN ts ELSE SubSeq(ts, SetMax(blanks) + 1, Len(ts))

\* C25: in every timestamp _find_timestamp returns, of whichever of the
\* three kinds, minutes and seconds are in 00-59 and a two-digit hour has
\* a leading digit of at most 2
C25_TimestampFieldsBound ==
  (name = "_find_timestamp" /\ result # None) =>
    LET fields == split_on(TimePart(result), ":")
    IN /\ Len(fields) \in {2, 3}
       /\ Len(fields[1]) = 2 => fields[1][1] \in {"0", "1", "2"}
       /\ \A f \in 2..Len(fields) :
            Len(fields[f]) = 2 /\ fields[f][1] \in {"0", "1", "2", "3", "4", "5"}

\* a match of n characters at 1-based i is neither glued to a word character
\* or colon before it nor followed by a colon and a digit
StandsAlone(s, i, n) ==
  /\ ~IsWord(At(s, i - 1)) /\ At(s, i - 1) # ":"
  /\ ~(At(s, i + n) = ":" /\ IsDigit(At(s, i + n + 1)))

\* C26: the simple-time and time-with-seconds patterns match nowhere
\* directly after a word character or colon, nor directly before a colon
\* and a digit, so a bare time that is returned stands alone somewhere in
\* the line and is no segment of a longer colon-delimited run
C26_NoGluedOrRunSegment ==
  name = "_find_timestamp" =>
    /\ \A p \in {"time_with_seconds", "simple_time"} :
         \A i \in 1..Len(text) :
           TimestampLen(p, text, i) > 0 => StandsAlone(text, i, TimestampLen(p, text, i))
    /\ (result # None /\ TimePart(result) = result) =>
         \E i \in 1..Len(text) :
           OccursAt(result, text, i - 1) /\ StandsAlone(text, i, Len(result))

\* the line begins with an HH:MM that a colon and a digit follow, and no
\* timestamp is returned
C26_Witness ==
  /\ name = "_find_timestamp"
  /\ HourLen(text, 1) > 0
  /\ IsSixty(text, HourLen(text, 1) + 2)
  /\ At(text, HourLen(text, 1) + 4) = ":"
  /\ IsDigit(At(text, HourLen(text, 1) + 5))
  /\ result = None

\* the lines of the summary text, and the places of the lines that begin
\* with a block's heading
SummaryLines == split(result.summary_text)
HeadingAt(prefix) == {k \in 1..Len(SummaryLines) : OccursAt(prefix, SummaryLines[k], 0)}

\* the count lines the entities block is to show: the non-empty types in
\* the order services, ips, domains
EntityCountLines ==
  (IF result.entities.services # <<>>
   THEN << <<" "," ","s","e","r","v","i","c","e","s",":"," ">> \o str(Len(result.entities.services)) >> ELSE <<>>)
  \o (IF result.entities.ips # <<>>
      THEN << <<" "," ","i","p","s",":"," ">> \o str(Len(result.entities.ips)) >> ELSE <<>>)
  \o (IF result.entities.domains # <<>>
      THEN << <<" "," ","d","o","m","a","i","n","s",":"," ">> \o str(Len(result.entities.domains)) >> ELSE <<>>)

\* C27: the summary text shows the severity line, the timeline block, the
\* actions block and the entities block in this order, each exactly when
\* its data is not empty, and the entities block lists only the non-empty
\* types in the order services, ips, domains
C27_BlocksInFixedOrder ==
  name = "generate_summary" =>
    LET sev == HeadingAt(<<"S","e","v","e","r","i","t","y",":"," ">>)
        tl == HeadingAt(<<"T","i","m","e","l","i","n","e",":"," ">>)
        act == HeadingAt(<<"A","c","t","i","o","n","s",":"," ">>)
        ent == HeadingAt(<<"E","n","t","i","t","i","e","s"," ","i","n","v","o","l","v","e","d",":">>)
    IN /\ Cardinality(sev) = (IF result.severity.level # "unknown" THEN 1 ELSE 0)
       /\ Cardinality(tl) = (IF result.timeline # <<>> THEN 1 ELSE 0)
       /\ Cardinality(act) = (IF result.actions # <<>> THEN 1 ELSE 0)
       /\ Cardinality(ent) = (IF EntityCountLines # <<>> THEN 1 ELSE 0)
       /\ \A a \in sev : \A b \in tl \cup act \cup ent : a < b
       /\ \A a \in tl : \A b \in act \cup ent : a < b
       /\ \A a \in act : \A b \in ent : a < b
       /\ \A e \in ent :
            SubSeq(SummaryLines, e + 1, Len(SummaryLines)) = EntityCountLines

\* all four blocks are shown, and the entities block leaves out an empty type
C27_Witness ==
  /\ name = "generate_summary"
  /\ HeadingAt(<<"S","e","v","e","r","i","t","y",":"," ">>) # {} /\ HeadingAt(<<"T","i","m","e","l","i","n","e",":"," ">>) # {}
  /\ HeadingAt(<<"A","c","t","i","o","n","s",":"," ">>) # {} /\ HeadingAt(<<"E","n","t","i","t","i","e","s"," ","i","n","v","o","l","v","e","d",":">>) # {}
  /\ Len(EntityCountLines) = 2

\* the count lines of the actions block: the lines between the actions
\* heading and the entities heading (or the end of the text)
ActionCountLines ==
  LET act == HeadingAt(<<"A","c","t","i","o","n","s",":"," ">>)
      ent == HeadingAt(<<"E","n","t","i","t","i","e","s"," ","i","n","v","o","l","v","e","d",":">>)
  IN IF act = {} THEN <<>>
     ELSE SubSeq(SummaryLines, SetMin(act) + 1,
                 IF ent = {} THEN Len(SummaryLines) ELSE SetMin(ent) - 1)

Categories == {"investigation", "remediation", "communication", "status"}
CountLine(c, n) == <<" "," ">> \o Chars(c) \o <<":"," ">> \o str(n)
IsCountLine(line, c) == \E n \in 1..Len(result.actions) : line = CountLine(c, n)
LineCategory(line) == CHOOSE c \in Categories : IsCountLine(line, c)
LineCount(line) ==
  CHOOSE n \in 1..Len(result.actions) : line = CountLine(LineCategory(line), n)
FirstActionOf(c) == SetMin({j \in 1..Len(result.actions) : result.actions[j].category = c})

RECURSIVE SumOfCounts(_)
SumOfCounts(lines) ==
  IF lines = <<>> THEN 0 ELSE LineCount(Head(lines)) + SumOfCounts(Tail(lines))

\* C28: the count lines of the actions block name each category of the
\* actions list once, in the order in which the categories first occur in
\* that list, and their counts sum to the total the heading reports
C28_CategoriesInFirstSeenOrder ==
  (name = "generate_summary" /\ result.actions # <<>>) =>
    LET lines == ActionCountLines
    IN /\ SummaryLines[SetMin(HeadingAt(<<"A","c","t","i","o","n","s",":"," ">>))]
            = <<"A","c","t","i","o","n","s",":"," ">> \o str(Len(result.actions)) \o <<" ","t","o","t","a","l">>
       /\ \A k \in 1..Len(lines) : \E c \in Categories : IsCountLine(lines[k], c)
       /\ {LineCategory(lines[k]) : k \in 1..Len(lines)}
            = {result.actions[j].category : j \in 1..Len(result.actions)}
       /\ \A j, k \in 1..Len(lines) :
            j < k => FirstActionOf(LineCategory(lines[j])) < FirstActionOf(LineCategory(lines[k]))
       /\ SumOfCounts(lines) = Len(result.actions)

\* two categories are listed, the one later in the registry first
C28_Witness ==
  /\ name = "generate_summary"
  /\ Len(ActionCountLines) = 2
  /\ LineCategory(ActionCountLines[1]) = "remediation"
  /\ LineCategory(ActionCountLines[2]) = "investigation"

\* the offset of the first occurrence of keyword inside s
FirstOffset(keyword, s) ==
  SetMin({i \in 0..(Len(s) - Len(keyword)) : OccursAt(keyword, s, i)})

\* C29: the level is unknown exactly when there are no indicators, and
\* exactly then the confidence is low; the indicators of a known level are
\* distinct keywords of that level, in the order of the level's keyword list
C29_IndicatorsInRegistryOrder ==
  name = "detect_severity" =>
    /\ (result.level = "unknown") <=> (result.indicators = <<>>)
    /\ (result.indicators = <<>>) <=> (result.confidence = "low")
    /\ result.level # "unknown" =>
         LET keywords == (CHOOSE row \in Range(SEVERITY_KEYWORDS) :
                            row.level = result.level).keywords
             Index(w) == CHOOSE k \in 1..Len(keywords) : keywords[k] = w
         IN /\ \A j \in 1..Len(result.indicators) : InList(result.indicators[j], keywords)
            /\ \A i, j \in 1..Len(result.indicators) :
                 i < j => Index(result.indicators[i]) < Index(result.indicators[j])

\* "outage" stands before "down" in the text and after it in the indicators
C29_Witness ==
  /\ name = "detect_severity"
  /\ result.indicators = << <<"d","o","w","n">>, <<"o","u","t","a","g","e">> >>
  /\ FirstOffset(<<"o","u","t","a","g","e">>, lower(text)) < FirstOffset(<<"d","o","w","n">>, lower(text))

\* C23: when arguments holds no text, or the empty str as text, call_tool
\* returns the one text content {"error": "No text provided"} and has
\* invoked no engine function, whatever the tool name is
C23_NoTextIsErrorWithoutEngine ==
  (/\ name = "call_tool"
   /\ \/ "text" \notin DOMAIN arguments
      \/ arguments.text.type = "str" /\ arguments.text.value = <<>>) =>
    /\ result = << [type |-> "text", text |-> <<"{","\"","e","r","r","o","r","\"",":"," ","\"","N","o"," ","t","e","x","t"," ","p","r","o","v","i","d","e","d","\"","}">>] >>
    /\ invoked = <<>>

\* a known tool is called without text
C23_Witness ==
  /\ name = "call_tool"
  /\ "text" \notin DOMAIN arguments
  /\ tool = <<"g","e","n","e","r","a","t","e","_","s","u","m","m","a","r","y">>
  /\ result = << [type |-> "text", text |-> <<"{","\"","e","r","r","o","r","\"",":"," ","\"","N","o"," ","t","e","x","t"," ","p","r","o","v","i","d","e","d","\"","}">>] >>

\* the engine function a tool name stands for, and the JSON text of what it
\* returns for the text t
KnownTools == {
  <<"e","x","t","r","a","c","t","_","t","i","m","e","l","i","n","e">>, <<"i","d","e","n","t","i","f","y","_","a","c","t","i","o","n","s">>, <<"e","x","t","r","a","c","t","_","e","n","t","i","t","i","e","s">>,
  <<"d","e","t","e","c","t","_","s","e","v","e","r","i","t","y">>, <<"g","e","n","e","r","a","t","e","_","s","u","m","m","a","r","y">> }

FunctionOf(n) ==
  CASE n = <<"e","x","t","r","a","c","t","_","t","i","m","e","l","i","n","e">> -> "extract_timeline"
    [] n = <<"i","d","e","n","t","i","f","y","_","a","c","t","i","o","n","s">> -> "identify_actions"
    [] n = <<"e","x","t","r","a","c","t","_","e","n","t","i","t","i","e","s">> -> "extract_entities"
    [] n = <<"d","e","t","e","c","t","_","s","e","v","e","r","i","t","y">> -> "detect_severity"
    [] n = <<"g","e","n","e","r","a","t","e","_","s","u","m","m","a","r","y">> -> "generate_summary"

ResultJson(n, t) ==
  CASE n = <<"e","x","t","r","a","c","t","_","t","i","m","e","l","i","n","e">> -> json_dumps_indent(TimelineValue(extract_timeline(t)), 2)
    [] n = <<"i","d","e","n","t","i","f","y","_","a","c","t","i","o","n","s">> -> json_dumps_indent(ActionsValue(identify_actions(t)), 2)
    [] n = <<"e","x","t","r","a","c","t","_","e","n","t","i","t","i","e","s">> -> json_dumps_indent(EntitiesValue(extract_entities(t)), 2)
    [] n = <<"d","e","t","e","c","t","_","s","e","v","e","r","i","t","y">> -> json_dumps_indent(SeverityValue(detect_severity(t)), 2)
    [] n = <<"g","e","n","e","r","a","t","e","_","s","u","m","m","a","r","y">> -> json_dumps_indent(SummaryValue(generate_summary(t)), 2)

\* C30: when the text is not empty call_tool returns exactly one text
\* content: for a known tool the JSON of what the tool's own engine function
\* returns, for any other name the object {"error": "Unknown tool: <name>"},
\* and when the engine function raises the object {"error": <message>} alone
C30_OneResultPerCall ==
  (name = "call_tool" /\ ~(text.type = "str" /\ text.value = <<>>)
                      /\ ~(text.type = "int" /\ text.value = 0)) =>
    /\ Len(result) = 1
    /\ result[1].type = "text"
    /\ IF tool \notin KnownTools
       THEN /\ result[1].text = <<"{","\"","e","r","r","o","r","\"",":"," ">> \o encode_basestring_ascii(<<"U","n","k","n","o","w","n"," ","t","o","o","l",":"," ">> \o tool) \o <<"}">>
            /\ invoked = <<>>
       ELSE /\ invoked = <<FunctionOf(tool)>>
            /\ IF text.type = "str"
               THEN result[1].text = ResultJson(tool, text.value)
               ELSE \E method \in {<<"s","t","r","i","p">>, <<"l","o","w","e","r">>} :
                      result[1].text = <<"{","\"","e","r","r","o","r","\"",":"," ","\"","'","i","n","t","'"," ","o","b","j","e","c","t"," ","h","a","s"," ","n","o"," ","a","t","t","r","i","b","u","t","e"," ","'">> \o method \o <<"'","\"","}">>

\* detect_severity is called through the handler with a text without keywords
C30_Witness ==
  /\ name = "call_tool"
  /\ tool = <<"d","e","t","e","c","t","_","s","e","v","e","r","i","t","y">>
  /\ text = PyStr(<<"h","e","l","l","o">>)
  /\ result = << [type |-> "text",
                  text |-> <<"{","\n"," "," ","\"","l","e","v","e","l","\"",":"," ","\"","u","n","k","n","o","w","n","\"",",","\n"," "," ","\"","c","o","n","f","i","d","e","n","c","e","\"",":"," ","\"","l","o","w","\"",",","\n"," "," ","\"","i","n","d","i","c","a","t","o","r","s","\"",":"," ","[","]","\n","}">>] >>
====
